---------------------------- MODULE Spec2Model ----------------------------
(***************************************************************************)
(* Model of python/worker/server/data_interface.py:                        *)
(*   - MetadataProcessor: validation and partition of a request's metadata *)
(*     envelope (process, _valid, _filter, _validate_and_filter);           *)
(*   - DataInterface: the session state of the arrow <-> pandas bridge      *)
(*     (arrow_to_pandas, pandas_to_arrow, add_tag, add_field,               *)
(*     _get_series_key, get_field_type, _clear_data).                       *)
(*                                                                         *)
(* A Python str is a sequence of code points, a Python bytes object a      *)
(* sequence of byte values; a Python dict is the sequence of its           *)
(* <<key, value>> items in insertion order.                                *)
(***************************************************************************)
EXTENDS Integers, Sequences, FiniteSets, TLC

VARIABLES
    _info,              \* MetadataProcessor._info
    _other_metadata,    \* MetadataProcessor._other_metadata
    _output_metadata,   \* MetadataProcessor._output_metadata
    router_call,        \* the last process() call: mode, outcome, state before it
    g_tag_kv,           \* DataInterface.g_tag_kv
    extra_tag_kv,       \* DataInterface.extra_tag_kv
    extra_field_kv,     \* DataInterface.extra_field_kv
    series_key,         \* DataInterface.series_key
    meta,               \* the registry (MetaData) handed to arrow_to_pandas
    call,               \* the last DataInterface call: op, arguments, returned value
    last_tag,           \* history: key -> value of the last add_tag call since the reset
    last_field,         \* history: key -> (value, type) of the last add_field call since the reset
    ingest_tags         \* history: the tags given to the last arrow_to_pandas since the reset

router_vars == <<_info, _other_metadata, _output_metadata, router_call>>

bridge_vars ==
    <<g_tag_kv, extra_tag_kv, extra_field_kv, series_key, meta, call,
      last_tag, last_field, ingest_tags>>

vars == <<router_vars, bridge_vars>>

(***************************************************************************)
(* Generic helpers                                                         *)
(***************************************************************************)
Range(s) == {s[i] : i \in 1..Len(s)}

\* the empty mapping
EmptyMap == [k \in {} |-> 0]

\* mapping m restricted to the keys in S
Restrict(m, S) == [k \in (DOMAIN m) \cap S |-> m[k]]

(***************************************************************************)
(* MetadataProcessor                                                       *)
(***************************************************************************)
\* the keys of const.py named by the class attributes
output_key == <<"DATA_ID", "MSG_TYPE", "CONN_ID", "TASK_ID">>

not_output_key ==
    <<"OUTPUT_INFO", "ALGORITHM", "CONFIG_FILE", "PROCESS_TYPE", "QUERY_MODE">>

not_necessary_for_stream == <<"OUTPUT_INFO", "QUERY_MODE", "PROCESS_TYPE">>

not_necessary_for_batch == <<"OUTPUT_INFO", "QUERY_MODE">>

special_keys == output_key \o not_output_key

\* keys of an envelope that are no special key (tags of the series, other keys)
AuxKeys == {"host", "region"}

EnvelopeKeys == Range(special_keys) \cup AuxKeys

\* the values an envelope may give to a key
EnvelopeValues(k) == IF k \in {"DATA_ID", "host"} THEN {"v1", "v2"} ELSE {"v1"}

Envelopes ==
    UNION { {f \in [S -> {"v1", "v2"}] : \A k \in S : f[k] \in EnvelopeValues(k)}
            : S \in SUBSET EnvelopeKeys }

Modes == {"batch", "stream"}

NoCall ==
    [mode |-> "none", raised |-> FALSE, missing |-> {}, fresh |-> FALSE,
     pre_other |-> EmptyMap, pre_output |-> EmptyMap]

\* MetadataProcessor.__init__(info), beside a DataInterface never used
RouterInit ==
    /\ _info \in Envelopes
    /\ _other_metadata = EmptyMap
    /\ _output_metadata = EmptyMap
    /\ router_call = NoCall
    /\ g_tag_kv = <<>>
    /\ extra_tag_kv = <<>>
    /\ extra_field_kv = <<>>
    /\ series_key = <<-1>>
    /\ meta = EmptyMap
    /\ call = [op |-> "none", arg |-> <<>>, val |-> <<>>, pre |-> <<>>]
    /\ last_tag = EmptyMap
    /\ last_field = EmptyMap
    /\ ingest_tags = [given |-> FALSE, tags |-> <<>>]

\* process: the keys that must be in the envelope
necessary_keys(mode) ==
    IF mode = "batch"
    THEN Range(special_keys) \ Range(not_necessary_for_batch)
    ELSE Range(special_keys) \ Range(not_necessary_for_stream)

with_other_info(mode) == mode = "batch"

\* _valid: the set not_in_info; the KeyError is raised iff it is not empty
_valid_first_only(keys) ==
    LET not_in_info == keys \ DOMAIN _info
    IN  IF not_in_info = {} THEN {} ELSE {CHOOSE k \in not_in_info : TRUE}

_valid(keys) == keys \ DOMAIN _info

\* _filter: _other_metadata after the loop over _info.items()
_filter_other_not_output(with_other) ==
    LET sel == {k \in DOMAIN _info : with_other /\ k \notin Range(output_key)}
    IN  [k \in (DOMAIN _other_metadata) \cup sel |->
            IF k \in sel THEN _info[k] ELSE _other_metadata[k]]

_filter_other(with_other) ==
    LET sel == {k \in DOMAIN _info : with_other /\ k \notin Range(special_keys)}
    IN  [k \in (DOMAIN _other_metadata) \cup sel |->
            IF k \in sel THEN _info[k] ELSE _other_metadata[k]]

\* _filter: _output_metadata after the loop over _info.items()
_filter_output ==
    LET sel == {k \in DOMAIN _info : k \in Range(output_key)}
    IN  [k \in (DOMAIN _output_metadata) \cup sel |->
            IF k \in sel THEN _info[k] ELSE _output_metadata[k]]

\* _validate_and_filter with the filter run before the validation
_filter_then_valid(mode, keys, with_other) ==
    /\ _other_metadata' = _filter_other(with_other)
    /\ _output_metadata' = _filter_output
    /\ router_call' =
          [mode |-> mode, raised |-> _valid(keys) # {}, missing |-> _valid(keys),
           fresh |-> router_call.mode = "none",
           pre_other |-> _other_metadata, pre_output |-> _output_metadata]

\* _validate_and_filter: _valid raises before _filter touches anything
_validate_and_filter(mode, keys, with_other) ==
    LET not_in_info == _valid(keys)
        this == [mode |-> mode, raised |-> not_in_info # {},
                 missing |-> not_in_info,
                 fresh |-> router_call.mode = "none",
                 pre_other |-> _other_metadata,
                 pre_output |-> _output_metadata]
    IN  /\ router_call' = this
        /\ IF not_in_info # {}
           THEN UNCHANGED <<_other_metadata, _output_metadata>>
           ELSE /\ _other_metadata' = _filter_other(with_other)
                /\ _output_metadata' = _filter_output

\* MetadataProcessor.process(mode)
process(mode) ==
    /\ _validate_and_filter(mode, necessary_keys(mode), with_other_info(mode))
    /\ UNCHANGED <<_info, bridge_vars>>

(***************************************************************************)
(* str, bytes and dict                                                     *)
(***************************************************************************)
\* bytes.decode(): UTF-8, one- and two-byte sequences
RECURSIVE decode(_)
decode(b) ==
    IF b = <<>> THEN <<>>
    ELSE IF b[1] < 128 THEN <<b[1]>> \o decode(Tail(b))
    ELSE <<(b[1] - 192) * 64 + (b[2] - 128)>> \o decode(Tail(Tail(b)))

\* str.encode(): UTF-8, code points below 2048
RECURSIVE encode(_)
encode(s) ==
    IF s = <<>> THEN <<>>
    ELSE IF s[1] < 128 THEN <<s[1]>> \o encode(Tail(s))
    ELSE <<192 + (s[1] \div 64), 128 + (s[1] % 64)>> \o encode(Tail(s))

\* a < b for two str: the order of Python's str comparison (by code point)
LexLess(a, b) ==
    \E i \in 1..Len(b) :
        /\ i <= Len(a) + 1
        /\ \A j \in 1..(i - 1) : a[j] = b[j]
        /\ (i = Len(a) + 1 \/ a[i] < b[i])

\* sorted(l) for a list of str
Insert(x, s) ==
    LET n == Cardinality({i \in 1..Len(s) : ~LexLess(x, s[i])})
    IN  SubSeq(s, 1, n) \o <<x>> \o SubSeq(s, n + 1, Len(s))

RECURSIVE sorted(_)
sorted(l) ==
    IF l = <<>> THEN <<>>
    ELSE Insert(l[Len(l)], sorted(SubSeq(l, 1, Len(l) - 1)))

\* sep.join(l) for a list of str
RECURSIVE join(_, _)
join(sep, l) ==
    IF l = <<>> THEN <<>>
    ELSE IF Len(l) = 1 THEN l[1]
    ELSE l[1] \o sep \o join(sep, Tail(l))

\* dict: the keys, d.get(k), d[k] = v, d.update(e), and d as a mapping
DictKeys(d) == {d[i][1] : i \in 1..Len(d)}

DictGet(d, k) == LET i == CHOOSE i \in 1..Len(d) : d[i][1] = k IN d[i][2]

DictSet(d, k, v) ==
    IF k \in DictKeys(d)
    THEN [i \in 1..Len(d) |-> IF d[i][1] = k THEN <<k, v>> ELSE d[i]]
    ELSE Append(d, <<k, v>>)

RECURSIVE DictUpdate(_, _)
DictUpdate(d, e) ==
    IF e = <<>> THEN d
    ELSE DictUpdate(DictSet(d, e[1][1], e[1][2]), Tail(e))

AsMap(d) == [k \in DictKeys(d) |-> DictGet(d, k)]

\* the ordered dicts with at most n items, keys from K (distinct), values from V
Dicts(K, V, n) ==
    {d \in UNION {[1..m -> K \X V] : m \in 0..n} :
        \A i, j \in 1..Len(d) : i # j => d[i][1] # d[j][1]}

\* Python's None where a str is expected
None == <<-1>>

(***************************************************************************)
(* DataInterface                                                           *)
(***************************************************************************)
\* const.DATA_TIME, const.ANOMALY_NUM, const.SEC_TO_NS
DATA_TIME == <<116, 105, 109, 101>>

ANOMALY_NUM == <<97, 110, 111, 109, 97, 108, 121, 78, 117, 109>>

SEC_TO_NS == 1000000000

\* a call record: pre is the session state a _clear_data discarded
NoBridgeCall == [op |-> "none", arg |-> <<>>, val |-> <<>>, pre |-> <<>>]

NoIngest == [given |-> FALSE, tags |-> <<>>]

\* DataInterface.__init__, with an empty registry, beside a
\* MetadataProcessor on the empty envelope that is never called
BridgeInit ==
    /\ _info = EmptyMap
    /\ _other_metadata = EmptyMap
    /\ _output_metadata = EmptyMap
    /\ router_call = NoCall
    /\ g_tag_kv = <<>>
    /\ extra_tag_kv = <<>>
    /\ extra_field_kv = <<>>
    /\ series_key = None
    /\ meta = EmptyMap
    /\ call = NoBridgeCall
    /\ last_tag = EmptyMap
    /\ last_field = EmptyMap
    /\ ingest_tags = NoIngest

\* the str _get_series_key joins: ",".join(sorted("=".join((k.decode(), v.decode()))))
series_key_of(metadata) ==
    join(<<44>>,
         sorted([i \in 1..Len(metadata) |->
                    decode(metadata[i][1]) \o <<61>> \o decode(metadata[i][2])]))

\* "TEMP"
TEMP == <<84, 69, 77, 80>>

\* DataInterface._get_series_key(metadata)
_get_series_key(metadata) ==
    /\ series_key' = IF series_key_of(metadata) = None
                     THEN TEMP
                     ELSE series_key_of(metadata)
    /\ call' = [op |-> "_get_series_key", arg |-> metadata, val |-> <<>>,
                pre |-> <<>>]
    /\ UNCHANGED <<g_tag_kv, extra_tag_kv, extra_field_kv, meta, last_tag,
                   last_field, ingest_tags, router_vars>>

\* the metadata mappings given to _get_series_key: bytes keys and values
MaxSeriesTags == 3

SeriesKeys == {<<97>>, <<98>>, <<97, 98>>, <<195, 169>>}

SeriesValues == {<<49>>, <<50>>}

SeriesInputs == Dicts(SeriesKeys, SeriesValues, MaxSeriesTags)

SeriesNext == \E metadata \in SeriesInputs : _get_series_key(metadata)

SpecSeries == BridgeInit /\ [][SeriesNext]_vars

(***************************************************************************)
(* get_field_type                                                          *)
(***************************************************************************)
\* the mapping of get_field_type with int32 and float32 kept narrow
mapping_narrow ==
    << <<"str", "utf8">>, <<"int64", "int64">>, <<"float64", "float64">>,
       <<"int32", "int32">>, <<"float32", "float32">>, <<"bool", "bool">>,
       <<"bool_", "bool">> >>

\* mapping: type(value).__name__ -> pyarrow type
mapping ==
    << <<"str", "utf8">>, <<"int64", "int64">>, <<"float64", "float64">>,
       <<"int32", "int64">>, <<"float32", "float64">>, <<"bool", "bool">>,
       <<"bool_", "bool">> >>

\* mapping.get(name): "None" for a name that is no key
mapping_get(name) ==
    IF name \in DictKeys(mapping) THEN DictGet(mapping, name) ELSE "None"

\* the loop of get_field_type from column i on, type_kv built so far
RECURSIVE field_type_loop(_, _, _, _)
field_type_loop(columns, first, i, type_kv) ==
    IF i > Len(columns) THEN [raised |-> FALSE, type_kv |-> type_kv]
    ELSE LET col_type == mapping_get(first[columns[i]])
         IN  IF col_type = "None"
             THEN [raised |-> TRUE, type_kv |-> <<>>]
             ELSE field_type_loop(columns, first, i + 1,
                                  DictSet(type_kv, columns[i], col_type))

\* DataInterface.get_field_type(columns, df): first[c] is
\* type(df[c].iloc[0]).__name__; raised is the TypeError
get_field_type(columns, first) ==
    field_type_loop(columns, first, 1, << <<DATA_TIME, "int64">> >>)

\* the frames given to get_field_type: column names, and the runtime type
\* names of first values (those of the mapping and three outside it)
MaxCols == 2

ColNames == {<<120>>, <<121>>, DATA_TIME}

MappedTypeNames == {"str", "int64", "float64", "int32", "float32", "bool", "bool_"}

OtherTypeNames == {"int", "NoneType", "Timestamp"}

ColumnLists ==
    {c \in UNION {[1..m -> ColNames] : m \in 0..MaxCols} :
        \A i, j \in 1..Len(c) : i # j => c[i] # c[j]}

\* a DataInterface never used, and a call of the static method about to be
\* made with the arguments call.arg = <<columns, first>>
SchemaInit ==
    /\ _info = EmptyMap
    /\ _other_metadata = EmptyMap
    /\ _output_metadata = EmptyMap
    /\ router_call = NoCall
    /\ g_tag_kv = <<>>
    /\ extra_tag_kv = <<>>
    /\ extra_field_kv = <<>>
    /\ series_key = None
    /\ meta = EmptyMap
    /\ \E columns \in ColumnLists :
          \E first \in [Range(columns) -> MappedTypeNames \cup OtherTypeNames] :
              call = [op |-> "calling", arg |-> <<columns, first>>,
                      val |-> <<>>, pre |-> <<>>]
    /\ last_tag = EmptyMap
    /\ last_field = EmptyMap
    /\ ingest_tags = NoIngest

\* the call of the static method on the arguments of call.arg
call_get_field_type ==
    /\ call.op = "calling"
    /\ call' = [op |-> "get_field_type", arg |-> call.arg,
                val |-> get_field_type(call.arg[1], call.arg[2]), pre |-> <<>>]
    /\ UNCHANGED <<g_tag_kv, extra_tag_kv, extra_field_kv, series_key, meta,
                   last_tag, last_field, ingest_tags, router_vars>>

SchemaNext == call_get_field_type

SpecSchema == SchemaInit /\ [][SchemaNext]_vars

(***************************************************************************)
(* arrow_to_pandas                                                         *)
(***************************************************************************)
\* MetaData.register_meta_data(key) on registry m: the registry afterwards.
\* A key seen before keeps its identifier, a new key gets the next one.
register_meta_data(m, key) ==
    IF key \in DOMAIN m THEN m ELSE m @@ (key :> Cardinality(DOMAIN m) + 1)

\* tag = tuple((key, value) for key, value in tags.items())
tag_tuple(tags) == tags

\* the registry keys _metadata_to_field_ids presents, one per column
meta_data_keys(task_id, tags, columns) ==
    [i \in 1..Len(columns) |-> <<task_id, tag_tuple(tags), encode(columns[i])>>]

\* the loop of _metadata_to_field_ids from column i on: col_list, and the
\* registry as the calls of register_meta_data leave it
RECURSIVE field_ids_loop(_, _, _, _)
field_ids_loop(m, keys, i, col_list) ==
    IF i > Len(keys) THEN [col_list |-> col_list, meta |-> m]
    ELSE LET after == register_meta_data(m, keys[i])
         IN  field_ids_loop(after, keys, i + 1, Append(col_list, after[keys[i]]))

\* DataInterface._metadata_to_field_ids(task_id, tags, columns, meta)
_metadata_to_field_ids(m, task_id, tags, columns) ==
    field_ids_loop(m, meta_data_keys(task_id, tags, columns), 1, <<>>)

\* the columns of a frame once set_index(DATA_TIME) took the time column away
without_time(columns) == SelectSeq(columns, LAMBDA c : c # DATA_TIME)

\* the registry holds at most MaxFieldIds keys
MaxFieldIds == 3

\* DataInterface.arrow_to_pandas(batch, tags, task_id, meta)
arrow_to_pandas(batch, tags, task_id) ==
    LET columns == without_time(batch.columns)
        index == [i \in 1..Len(batch.time) |-> batch.time[i] \div SEC_TO_NS]
        ids == _metadata_to_field_ids(meta, task_id, tags, columns)
        df_new == [index |-> index, columns |-> ids.col_list]
    IN  /\ Cardinality(DOMAIN ids.meta) <= MaxFieldIds
        /\ meta' = ids.meta
        /\ call' = [op |-> "arrow_to_pandas", arg |-> <<batch, tags, task_id>>,
                    val |-> df_new, pre |-> <<>>]
        /\ ingest_tags' = [given |-> TRUE, tags |-> tags]
        /\ UNCHANGED <<g_tag_kv, extra_tag_kv, extra_field_kv, series_key,
                       last_tag, last_field, router_vars>>

\* the batches, tag mappings and task ids given to arrow_to_pandas
IngestBatches ==
    { [columns |-> <<DATA_TIME, <<120>>>>, time |-> <<0>>],
      [columns |-> <<<<120>>, DATA_TIME, <<121>>>>, time |-> <<1500000000, 2000000000>>],
      [columns |-> <<<<121>>, <<120>>, DATA_TIME>>, time |-> <<2000000000>>] }

IngestTags == Dicts({<<97>>, <<233>>}, {<<49>>}, 2)

IngestTasks == {<<116, 49>>, <<116, 50>>}

IngestNext ==
    \E batch \in IngestBatches, tags \in IngestTags, task_id \in IngestTasks :
        arrow_to_pandas(batch, tags, task_id)

SpecIngest == BridgeInit /\ [][IngestNext]_vars

(***************************************************************************)
(* add_tag, add_field, _clear_data, pandas_to_arrow                        *)
(***************************************************************************)
\* DataInterface.add_tag(key, value)
add_tag(key, value) ==
    /\ extra_tag_kv' = DictSet(extra_tag_kv, key, value)
    /\ last_tag' = (key :> value) @@ last_tag
    /\ call' = [op |-> "add_tag", arg |-> <<key, value>>, val |-> <<>>,
                pre |-> <<>>]
    /\ UNCHANGED <<g_tag_kv, extra_field_kv, series_key, meta, last_field,
                   ingest_tags, router_vars>>

\* DataInterface.add_field(key, value, data_type)
add_field(key, value, data_type) ==
    /\ extra_field_kv' = DictSet(extra_field_kv, key, <<value, data_type>>)
    /\ last_field' = (key :> <<value, data_type>>) @@ last_field
    /\ call' = [op |-> "add_field", arg |-> <<key, value, data_type>>,
                val |-> <<>>, pre |-> <<>>]
    /\ UNCHANGED <<g_tag_kv, extra_tag_kv, series_key, meta, last_tag,
                   ingest_tags, router_vars>>

\* the caller's assignment to the attribute g_tag_kv ("record the group by
\* tags received from kapacitor"): no method of the class writes it
set_g_tag_kv(tags) ==
    /\ g_tag_kv' = tags
    /\ call' = [op |-> "set_g_tag_kv", arg |-> tags, val |-> <<>>, pre |-> <<>>]
    /\ UNCHANGED <<extra_tag_kv, extra_field_kv, series_key, meta, last_tag,
                   last_field, ingest_tags, router_vars>>

\* _clear_data that leaves the extra tags behind
_clear_data_keeps_tags ==
    /\ g_tag_kv' = <<>>
    /\ extra_tag_kv' = extra_tag_kv
    /\ extra_field_kv' = <<>>
    /\ series_key' = None
    /\ last_tag' = EmptyMap
    /\ last_field' = EmptyMap
    /\ ingest_tags' = NoIngest
    /\ call' = [op |-> "_clear_data", arg |-> <<>>, val |-> <<>>,
                pre |-> <<g_tag_kv, extra_tag_kv, extra_field_kv, series_key>>]
    /\ UNCHANGED <<meta, router_vars>>

\* DataInterface._clear_data()
_clear_data ==
    /\ g_tag_kv' = <<>>
    /\ extra_tag_kv' = <<>>
    /\ extra_field_kv' = <<>>
    /\ series_key' = None
    /\ last_tag' = EmptyMap
    /\ last_field' = EmptyMap
    /\ ingest_tags' = NoIngest
    /\ call' = [op |-> "_clear_data", arg |-> <<>>, val |-> <<>>,
                pre |-> <<g_tag_kv, extra_tag_kv, extra_field_kv, series_key>>]
    /\ UNCHANGED <<meta, router_vars>>

\* tag_kv with the group-by tags written over the extra tags
tag_kv_group_by_wins == DictUpdate(extra_tag_kv, g_tag_kv)

\* tag_kv = self.g_tag_kv.copy(); tag_kv.update(self.extra_tag_kv)
tag_kv_merged == DictUpdate(g_tag_kv, extra_tag_kv)

\* pa.schema(field_type_kv, tag_kv).metadata: keys and values as bytes
schema_metadata(tag_kv) ==
    [i \in 1..Len(tag_kv) |-> <<encode(tag_kv[i][1]), encode(tag_kv[i][2])>>]

\* the batch RecordBatch.from_pandas builds: the columns of the schema, in its
\* order, the time column, the constant columns, the schema's metadata
arrow_batch(field_type_kv, time, constant, tag_kv) ==
    [raised |-> "",
     columns |-> [i \in 1..Len(field_type_kv) |-> field_type_kv[i][1]],
     types |-> [i \in 1..Len(field_type_kv) |-> field_type_kv[i][2]],
     time |-> time,
     constant |-> constant,
     metadata |-> schema_metadata(tag_kv)]

\* a call that raised
raised_error(name) ==
    [raised |-> name, columns |-> <<>>, types |-> <<>>, time |-> <<>>,
     constant |-> <<>>, metadata |-> <<>>]

\* the df is None branch without the anomaly-count tag
pandas_to_arrow_none_unmarked ==
    arrow_batch(<<>>, <<>>, <<>>, tag_kv_merged)

\* pandas_to_arrow(None): an empty frame, tag_kv.update({ANOMALY_NUM: str(0)}),
\* field_type_kv = {}
pandas_to_arrow_none ==
    arrow_batch(<<>>, <<>>, <<>>, DictSet(tag_kv_merged, ANOMALY_NUM, <<48>>))

\* pandas_to_arrow(df) for a frame
pandas_to_arrow_frame(df) ==
    LET inferred == get_field_type(df.columns, df.first)
        field_type_kv ==
            DictUpdate(inferred.type_kv,
                       [i \in 1..Len(extra_field_kv) |->
                           <<extra_field_kv[i][1], extra_field_kv[i][2][2]>>])
        constant ==
            [i \in 1..Len(extra_field_kv) |->
                <<extra_field_kv[i][1], extra_field_kv[i][2][1]>>]
        \* sub_df[key] = value[0]: a new column, or an old one overwritten
        sub_columns ==
            df.columns \o
            SelectSeq([i \in 1..Len(extra_field_kv) |-> extra_field_kv[i][1]],
                      LAMBDA k : k \notin Range(df.columns))
        \* _datetime2timestamp: the index as integers, in nanoseconds
        time == [i \in 1..Len(df.index) |-> df.index[i] * SEC_TO_NS]
    IN  IF inferred.raised THEN raised_error("TypeError")
        \* reset_index cannot insert DATA_TIME beside a column of that name
        ELSE IF DATA_TIME \in Range(sub_columns) THEN raised_error("ValueError")
        ELSE arrow_batch(field_type_kv, time, constant, tag_kv_merged)

\* DataInterface.pandas_to_arrow(df)
pandas_to_arrow(df) ==
    /\ call' = [op |-> "pandas_to_arrow", arg |-> df,
                val |-> IF df.none THEN pandas_to_arrow_none
                        ELSE pandas_to_arrow_frame(df),
                pre |-> <<>>]
    /\ UNCHANGED <<g_tag_kv, extra_tag_kv, extra_field_kv, series_key, meta,
                   last_tag, last_field, ingest_tags, router_vars>>

\* the arguments of a session's calls
NoFrame == [none |-> TRUE, index |-> <<>>, columns |-> <<>>, first |-> EmptyMap]

EmitFrames ==
    { NoFrame,
      [none |-> FALSE, index |-> <<1, 2>>, columns |-> <<<<120>>, <<121>>>>,
       first |-> (<<120>> :> "float32") @@ (<<121>> :> "str")],
      [none |-> FALSE, index |-> <<1>>, columns |-> <<<<120>>>>,
       first |-> (<<120>> :> "Timestamp")],
      [none |-> FALSE, index |-> <<1>>, columns |-> <<DATA_TIME>>,
       first |-> (DATA_TIME :> "str")] }

TagKeys == {<<233>>, ANOMALY_NUM}

TagValues == {<<49>>, <<50>>}

GroupByTags ==
    { <<>>, << <<<<233>>, <<50>>>> >>,
      << <<<<104>>, <<49>>>>, <<<<233>>, <<49>>>> >> }

FieldArgs ==
    { <<<<102>>, "1.5", "float64">>, <<<<102>>, "ok", "utf8">>,
      <<DATA_TIME, "0", "int64">> }

SessionSeries == {<<>>, << <<<<97>>, <<49>>>> >>}

SessionBatches == {[columns |-> <<DATA_TIME, <<120>>>>, time |-> <<1500000000>>]}

SessionIngestTags == {<<>>, << <<<<233>>, <<49>>>> >>}

SessionTasks == {<<116, 49>>}

BridgeNext ==
    \/ \E key \in TagKeys, value \in TagValues : add_tag(key, value)
    \/ \E f \in FieldArgs : add_field(f[1], f[2], f[3])
    \/ \E tags \in GroupByTags : set_g_tag_kv(tags)
    \/ \E metadata \in SessionSeries : _get_series_key(metadata)
    \/ \E batch \in SessionBatches, tags \in SessionIngestTags,
          task_id \in SessionTasks : arrow_to_pandas(batch, tags, task_id)
    \/ \E df \in EmitFrames : pandas_to_arrow(df)
    \/ _clear_data

SpecBridge == BridgeInit /\ [][BridgeNext]_vars

RouterNext == \E mode \in Modes : process(mode)

SpecRouter == RouterInit /\ [][RouterNext]_vars

(***************************************************************************)
(* Properties of MetadataProcessor (SpecRouter)                            *)
(***************************************************************************)
SpecialKeySet ==
    {"DATA_ID", "MSG_TYPE", "CONN_ID", "TASK_ID", "OUTPUT_INFO", "ALGORITHM",
     "CONFIG_FILE", "PROCESS_TYPE", "QUERY_MODE"}

OutputKeySet == {"DATA_ID", "MSG_TYPE", "CONN_ID", "TASK_ID"}

Required(mode) ==
    IF mode = "batch"
    THEN SpecialKeySet \ {"OUTPUT_INFO", "QUERY_MODE"}
    ELSE SpecialKeySet \ {"OUTPUT_INFO", "QUERY_MODE", "PROCESS_TYPE"}

Processed == router_call.mode # "none"

\* C1: process(mode) raises the missing-metadata error iff some key of
\* required(mode) is absent from the envelope, and the error then lists
\* exactly the absent required keys.
C1_MissingKeysExact ==
    Processed =>
        /\ router_call.raised <=>
              (\E k \in Required(router_call.mode) : k \notin DOMAIN _info)
        /\ router_call.raised =>
              \A k \in EnvelopeKeys \cup router_call.missing :
                  k \in router_call.missing <=>
                      (k \in Required(router_call.mode) /\ k \notin DOMAIN _info)

\* a failed batch call with two required keys absent, a required key present
\* and an exempt key absent
C1_Witness ==
    /\ router_call.mode = "batch"
    /\ router_call.raised
    /\ Cardinality(router_call.missing) >= 2
    /\ "DATA_ID" \in DOMAIN _info
    /\ "OUTPUT_INFO" \notin DOMAIN _info

\* C2: a process(mode) call that fails for an absent required key leaves
\* output-metadata and other-metadata as they were before the call, both
\* empty on a fresh router.
C2_FailureBeforePartition ==
    (Processed /\ router_call.raised) =>
        /\ _other_metadata = router_call.pre_other
        /\ _output_metadata = router_call.pre_output
        /\ router_call.fresh =>
              (_other_metadata = EmptyMap /\ _output_metadata = EmptyMap)

\* a failed batch call on a fresh router whose envelope holds an output key
\* and an auxiliary key
C2_Witness ==
    /\ router_call.mode = "batch"
    /\ router_call.raised
    /\ router_call.fresh
    /\ "DATA_ID" \in DOMAIN _info
    /\ "host" \in DOMAIN _info

\* C3 as stated: after any successful process(mode) call, output-metadata is
\* the envelope restricted to the four output keys; in batch mode
\* other-metadata is the envelope restricted to the keys outside the special
\* keys; in streaming mode other-metadata is empty.
C3_StreamingOtherEmpty ==
    (Processed /\ ~router_call.raised) =>
        /\ _output_metadata = Restrict(_info, OutputKeySet)
        /\ router_call.mode = "batch" =>
              _other_metadata = Restrict(_info, (DOMAIN _info) \ SpecialKeySet)
        /\ router_call.mode # "batch" => _other_metadata = EmptyMap

\* C3 as amended: as above, but in streaming mode other-metadata is what it
\* was before the call (empty on a fresh router; what an earlier batch call
\* on the same router put there otherwise).
C3_PartitionExact ==
    (Processed /\ ~router_call.raised) =>
        /\ _output_metadata = Restrict(_info, OutputKeySet)
        /\ router_call.mode = "batch" =>
              _other_metadata = Restrict(_info, (DOMAIN _info) \ SpecialKeySet)
        /\ router_call.mode # "batch" =>
              /\ _other_metadata = router_call.pre_other
              /\ router_call.fresh => _other_metadata = EmptyMap

\* a successful streaming call after a batch call that filled other-metadata,
\* on an envelope with a non-output special key
C3_Witness ==
    /\ router_call.mode = "stream"
    /\ ~router_call.raised
    /\ ~router_call.fresh
    /\ _other_metadata # EmptyMap
    /\ _output_metadata # EmptyMap
    /\ "OUTPUT_INFO" \in DOMAIN _info

(***************************************************************************)
(* Properties of the series key (SpecSeries)                               *)
(***************************************************************************)
\* the decoded "key=value" strs of a metadata mapping, as a set
PairStrs(metadata) ==
    {decode(metadata[i][1]) \o <<61>> \o decode(metadata[i][2]) :
        i \in 1..Len(metadata)}

\* the strs of a set in ascending order
RECURSIVE Ascending(_)
Ascending(S) ==
    IF S = {} THEN <<>>
    ELSE LET least == CHOOSE x \in S : \A y \in S \ {x} : LexLess(x, y)
         IN  <<least>> \o Ascending(S \ {least})

\* C4: the series key is the comma-joined sorted list of the decoded
\* key=value pairs of the metadata mapping, the same for every order of its
\* entries; for an empty mapping it is the sentinel "TEMP", never the empty
\* string.
C4_SeriesKeySentinel ==
    call.op = "_get_series_key" =>
        /\ call.arg # <<>> =>
              series_key = join(<<44>>, Ascending(PairStrs(call.arg)))
        /\ call.arg = <<>> => series_key = TEMP
        /\ series_key # <<>>

(***************************************************************************)
(* Properties of the session (SpecBridge)                                  *)
(***************************************************************************)
Emitted == call.op = "pandas_to_arrow" /\ call.val.raised = ""

\* the metadata of the emitted batch, as a mapping
EmittedMetadata == AsMap(call.val.metadata)

\* metadata m holds tag key k with value v
HoldsTag(m, k, v) == encode(k) \in DOMAIN m /\ m[encode(k)] = encode(v)

\* the keys of the group-by tags and of the tags registered since the reset
MergedKeys == DictKeys(g_tag_kv) \cup DOMAIN last_tag

\* G overridden by E at key k
MergedValue(k) ==
    IF k \in DOMAIN last_tag THEN last_tag[k] ELSE DictGet(g_tag_kv, k)

\* C5 as stated: the tag metadata of the batch pandas_to_arrow returns is G
\* overridden by E: each key of G or E is present, with E's value where E
\* has the key, and no other tag (the anomaly-count marker of a None call
\* set aside).
C5_MetadataIsMerge ==
    Emitted =>
        /\ DOMAIN EmittedMetadata \subseteq
              {encode(k) : k \in MergedKeys \cup {ANOMALY_NUM}}
        /\ ~call.arg.none =>
              DOMAIN EmittedMetadata = {encode(k) : k \in MergedKeys}
        /\ \A k \in MergedKeys : HoldsTag(EmittedMetadata, k, MergedValue(k))

\* C5 as amended: with a frame the metadata is G overridden by E; with None it
\* is G overridden by E overridden by {anomaly-count: "0"}.
C5_MetadataIsMergeThenMarker ==
    Emitted =>
        /\ Len(call.val.metadata) = Cardinality(DOMAIN EmittedMetadata)
        /\ ~call.arg.none =>
              /\ DOMAIN EmittedMetadata = {encode(k) : k \in MergedKeys}
              /\ \A k \in MergedKeys :
                    HoldsTag(EmittedMetadata, k, MergedValue(k))
        /\ call.arg.none =>
              /\ DOMAIN EmittedMetadata =
                    {encode(k) : k \in MergedKeys \cup {ANOMALY_NUM}}
              /\ \A k \in MergedKeys \ {ANOMALY_NUM} :
                    HoldsTag(EmittedMetadata, k, MergedValue(k))
              /\ HoldsTag(EmittedMetadata, ANOMALY_NUM, <<48>>)

\* a batch emitted for a frame while a key has one value in G and another in
\* E, and G has a key E has not
C5_Witness ==
    /\ Emitted
    /\ ~call.arg.none
    /\ \E k \in DictKeys(g_tag_kv) \cap DOMAIN last_tag :
          DictGet(g_tag_kv, k) # last_tag[k]
    /\ DictKeys(g_tag_kv) \ DOMAIN last_tag # {}

\* the value of current tag k: the extra tag's, else the group-by tag's
CurrentTag(k) ==
    IF k \in DictKeys(extra_tag_kv) THEN DictGet(extra_tag_kv, k)
    ELSE DictGet(g_tag_kv, k)

CurrentKeys == DictKeys(g_tag_kv) \cup DictKeys(extra_tag_kv)

\* C6 as stated: pandas_to_arrow(None) returns a batch with no column whose
\* metadata holds every current tag and the anomaly-count tag "0".
C6_NoResultAllTags ==
    (call.op = "pandas_to_arrow" /\ call.arg.none) =>
        /\ call.val.raised = ""
        /\ call.val.columns = <<>>
        /\ call.val.constant = <<>>
        /\ \A k \in CurrentKeys : HoldsTag(EmittedMetadata, k, CurrentTag(k))
        /\ HoldsTag(EmittedMetadata, ANOMALY_NUM, <<48>>)

\* C6 as amended: ... whose metadata holds every current tag other than a
\* tag named like the anomaly-count tag, and the anomaly-count tag "0".
C6_NoResultTagsAndMarker ==
    (call.op = "pandas_to_arrow" /\ call.arg.none) =>
        /\ call.val.raised = ""
        /\ call.val.columns = <<>>
        /\ call.val.constant = <<>>
        /\ \A k \in CurrentKeys \ {ANOMALY_NUM} :
              HoldsTag(EmittedMetadata, k, CurrentTag(k))
        /\ HoldsTag(EmittedMetadata, ANOMALY_NUM, <<48>>)

\* pandas_to_arrow(None) with group-by tags, extra tags and extra fields set
C6_Witness ==
    /\ call.op = "pandas_to_arrow"
    /\ call.arg.none
    /\ g_tag_kv # <<>>
    /\ extra_tag_kv # <<>>
    /\ extra_field_kv # <<>>
    /\ DictKeys(g_tag_kv) \cap DictKeys(extra_tag_kv) # {}

\* C7: _clear_data leaves group-by tags, extra tags and extra fields empty
\* and the series key unset, and a batch emitted afterwards carries only
\* tags and fields set since the reset.
C7_ResetClearsSession ==
    /\ call.op = "_clear_data" =>
          /\ g_tag_kv = <<>>
          /\ extra_tag_kv = <<>>
          /\ extra_field_kv = <<>>
          /\ series_key = None
    /\ Emitted =>
          /\ DOMAIN EmittedMetadata \subseteq
                {encode(k) : k \in MergedKeys \cup {ANOMALY_NUM}}
          /\ \A i \in 1..Len(call.val.constant) :
                /\ call.val.constant[i][1] \in DOMAIN last_field
                /\ call.val.constant[i][2] =
                      last_field[call.val.constant[i][1]][1]

\* a reset of a session that had group-by tags, extra tags, extra fields and
\* a series key, after an ingest
C7_Witness ==
    /\ call.op = "_clear_data"
    /\ call.pre[1] # <<>>
    /\ call.pre[2] # <<>>
    /\ call.pre[3] # <<>>
    /\ call.pre[4] # None
    /\ meta # EmptyMap

\* C10: after arrow_to_pandas(batch, tags, ...) with no reset since, the
\* metadata of the batch the next pandas_to_arrow returns holds every
\* key/value pair of those tags.
C10_GroupByRoundTrip ==
    (Emitted /\ ingest_tags.given) =>
        \A i \in 1..Len(ingest_tags.tags) :
            HoldsTag(EmittedMetadata, ingest_tags.tags[i][1],
                     ingest_tags.tags[i][2])

(***************************************************************************)
(* Properties of arrow_to_pandas (SpecIngest)                              *)
(***************************************************************************)
\* the items of a tag mapping sorted by key
tag_tuple_sorted(tags) ==
    LET keys == sorted([i \in 1..Len(tags) |-> tags[i][1]])
    IN  [i \in 1..Len(tags) |-> <<keys[i], DictGet(tags, keys[i])>>]

\* C8: every non-time column is resolved with the key (task_id, sorted tag
\* tuple, column name as bytes) and renamed, in place, to the identifier of
\* that key; tag mappings with the same pairs in different orders present
\* the same key for the same column.
C8_SortedRegistryKey ==
    /\ call.op = "arrow_to_pandas" =>
          LET batch == call.arg[1]
              tags == call.arg[2]
              task_id == call.arg[3]
              columns == SelectSeq(batch.columns, LAMBDA c : c # DATA_TIME)
          IN  /\ Len(call.val.columns) = Len(columns)
              /\ \A i \in 1..Len(columns) :
                    LET key == <<task_id, tag_tuple_sorted(tags),
                                 encode(columns[i])>>
                    IN  key \in DOMAIN meta /\ call.val.columns[i] = meta[key]
    /\ \A k1, k2 \in DOMAIN meta :
          (k1[1] = k2[1] /\ k1[3] = k2[3] /\ Range(k1[2]) = Range(k2[2]))
              => k1 = k2

(***************************************************************************)
(* Properties of get_field_type (SpecSchema)                               *)
(***************************************************************************)
ClosedTypes == {"str", "int32", "int64", "float32", "float64", "bool", "bool_"}

Wire(name) ==
    CASE name = "str" -> "utf8"
      [] name \in {"int32", "int64"} -> "int64"
      [] name \in {"float32", "float64"} -> "float64"
      [] name \in {"bool", "bool_"} -> "bool"

\* the mapping get_field_type returned
Inferred == AsMap(call.val.type_kv)

\* C9 as stated: with every listed column's first value of a type of the
\* taxonomy, get_field_type succeeds, types each column by the taxonomy and
\* the time column as int64; otherwise it raises and returns no mapping.
C9_TimeAlwaysInt64 ==
    call.op = "get_field_type" =>
        LET columns == call.arg[1]
            first == call.arg[2]
        IN  IF \A i \in 1..Len(columns) : first[columns[i]] \in ClosedTypes
            THEN /\ ~call.val.raised
                 /\ \A i \in 1..Len(columns) :
                       /\ columns[i] \in DOMAIN Inferred
                       /\ Inferred[columns[i]] = Wire(first[columns[i]])
                 /\ DATA_TIME \in DOMAIN Inferred
                 /\ Inferred[DATA_TIME] = "int64"
            ELSE call.val.raised /\ call.val.type_kv = <<>>

\* C9 as amended: ... and types the time column as int64 unless a listed
\* column has the time column's name, which then gets the type inferred for
\* that column.
C9_TypeClosure ==
    call.op = "get_field_type" =>
        LET columns == call.arg[1]
            first == call.arg[2]
        IN  IF \A i \in 1..Len(columns) : first[columns[i]] \in ClosedTypes
            THEN /\ ~call.val.raised
                 /\ DOMAIN Inferred = Range(columns) \cup {DATA_TIME}
                 /\ \A i \in 1..Len(columns) :
                       /\ columns[i] \in DOMAIN Inferred
                       /\ Inferred[columns[i]] = Wire(first[columns[i]])
                 /\ DATA_TIME \notin Range(columns) =>
                       Inferred[DATA_TIME] = "int64"
            ELSE call.val.raised /\ call.val.type_kv = <<>>

\* a successful inference over an int32 and a float32 column
C9_Witness ==
    /\ call.op = "get_field_type"
    /\ ~call.val.raised
    /\ Len(call.arg[1]) = 2
    /\ DATA_TIME \notin Range(call.arg[1])
    /\ {call.arg[2][c] : c \in Range(call.arg[1])} = {"int32", "float32"}


=============================================================================
